---- MODULE Spec2Model ----
(***************************************************************************)
(* Library Management System API (LibrarySystem/library_api_system.py).    *)
(* The five in-memory stores are the state; every request handler is one   *)
(* action.  A request that raises HTTPException changes no store; the      *)
(* status code it answers with is recorded in `response`.                  *)
(***************************************************************************)
EXTENDS Integers, Sequences, FiniteSets, TLC

VARIABLES
    users_db,        \* list of User
    books_db,        \* list of Book
    reservations_db, \* list of {"book_id", "user_id", "reserved_at"}
    borrowings_db,   \* list of Borrowing
    events_db,       \* list of Event
    now,             \* the value datetime.utcnow() last returned
    response,        \* the last request served and the status it got
    pre_books,       \* books_db as it was when the last request arrived
    pc,              \* position of each concurrent borrow_book request
    seen             \* what each concurrent borrow_book request has read

vars == <<users_db, books_db, reservations_db, borrowings_db, events_db,
          now, response, pre_books, pc, seen>>

stores == <<users_db, books_db, reservations_db, borrowings_db, events_db>>

----------------------------------------------------------------------------
(* Bounds of the model *)

MaxUsers == 2
MaxQuantity == 2
MaxBorrowings == 2
MaxEvents == 2
MaxClock == 1
MaxShelf == 2

(* timedelta(days=14) *)
LoanDays == 14

(* Optional[datetime] = None *)
None == -1

----------------------------------------------------------------------------
(* Values the requests are drawn from.  "mallory" is the username of no user,
   "b9" and "e9" are the ids of no book and no event. *)

UserIds == {"u1", "u2"}
Usernames == {"alice", "Alice", "bob"}
Roles == {"user", "librarian", "admin"}
Tokens == {"alice", "bob", "mallory"}
BookIds == {"b1", "b2"}
BookArgs == BookIds \cup {"b9"}
EventIds == {"e1", "e2"}
EventArgs == EventIds \cup {"e9"}
Threads == {1, 2}

Range(s) == {s[i] : i \in 1..Len(s)}

(* next((x for x in s if P(x)), None): the index of the first match, 0 for None *)
First(s, P(_)) ==
    IF \E i \in 1..Len(s) : P(s[i])
    THEN CHOOSE i \in 1..Len(s) : P(s[i]) /\ \A j \in 1..(i-1) : ~P(s[j])
    ELSE 0

(* a User with every field the handlers read *)
Member(id, username, password, role) ==
    [id |-> id, username |-> username, password |-> password, role |-> role]

(* a User whose password no claim depends on *)
User(id, username, role) == Member(id, username, "secret", role)

Book(id, quantity, available) ==
    [id |-> id, quantity |-> quantity, available |-> available]

Borrowing(id, user_id, book_id, borrowed_at, due_date) ==
    [id |-> id, user_id |-> user_id, book_id |-> book_id,
     borrowed_at |-> borrowed_at, due_date |-> due_date, returned_at |-> None]

Resp(op, arg, status) == [op |-> op, arg |-> arg, status |-> status]

(* a 200 answer that carries a response body *)
Page(op, arg, body) == [op |-> op, arg |-> arg, status |-> 200, body |-> body]

----------------------------------------------------------------------------
(* get_current_user looking the token up among the ids *)
get_current_user_by_id(token) ==
    First(users_db, LAMBDA u : u.id = token)

(* get_current_user: the first user whose username is the token, 0 for a 401 *)
get_current_user(token) ==
    First(users_db, LAMBDA u : u.username = token)

(* utcnow() read twice in a row: t1 <= t2, the clock never goes back *)
Reads2 == {<<t1, t2>> \in (now..MaxClock) \X (now..MaxClock) : t1 <= t2}

(* a request answered with an HTTPException: no store changes *)
Fail(op, arg, status) ==
    /\ response' = Resp(op, arg, status)
    /\ pre_books' = books_db
    /\ UNCHANGED <<stores, now, pc, seen>>

(* the HTTPException(401) of get_current_user: the handler is never entered *)
Unauthenticated == Fail("get_current_user", "", 401)

----------------------------------------------------------------------------
(* POST /users/register *)

(* username_taken comparing ids instead of usernames *)
username_taken_by_id(user) ==
    \E i \in 1..Len(users_db) : users_db[i].id = user.id

(* any(u.username == user.username for u in users_db) *)
username_taken(user) ==
    \E i \in 1..Len(users_db) : users_db[i].username = user.username

register_user(user) ==
    /\ Len(users_db) < MaxUsers \/ username_taken(user)
    /\ IF username_taken(user)
       THEN Fail("register_user", user.username, 400)
       ELSE /\ users_db' = Append(users_db, user)
            /\ response' = Resp("register_user", user.username, 200)
            /\ pre_books' = books_db
            /\ UNCHANGED <<books_db, reservations_db, borrowings_db, events_db,
                           now, pc, seen>>

----------------------------------------------------------------------------
(* POST /books/{book_id}/borrow *)

find_book(book_id) == First(books_db, LAMBDA b : b.id = book_id)

(* borrow_refused with the comparison off by one: available < 0 *)
borrow_refused_below_zero(book_id) ==
    \/ find_book(book_id) = 0
    \/ books_db[find_book(book_id)].available < 0

(* borrow_refused checking the book's existence only *)
borrow_refused_missing_only(book_id) == find_book(book_id) = 0

(* borrow_refused that also turns the caller away from a reserved book *)
borrow_refused_when_reserved(book_id) ==
    \/ find_book(book_id) = 0
    \/ books_db[find_book(book_id)].available <= 0
    \/ \E i \in 1..Len(reservations_db) : reservations_db[i].book_id = book_id

(* if not book or book.available <= 0 *)
borrow_refused(book_id) ==
    \/ find_book(book_id) = 0
    \/ books_db[find_book(book_id)].available <= 0

(* take_copy that stops at zero *)
take_copy_floor(book) ==
    [book EXCEPT !.available = IF @ > 0 THEN @ - 1 ELSE @]

(* book.available -= 1 *)
take_copy(book) == [book EXCEPT !.available = @ - 1]

(* Borrowing(user_id=..., book_id=..., borrowed_at=utcnow(),
             due_date=utcnow() + timedelta(days=14)); borrowings_db.append(...) *)
record_borrowing(user_id, book_id, r) ==
    /\ borrowings_db' = Append(borrowings_db,
           Borrowing(Len(borrowings_db) + 1, user_id, book_id, r[1], r[2] + LoanDays))
    /\ now' = r[2]

borrow_book(token, book_id) ==
    LET cu == get_current_user(token)
        bi == find_book(book_id)
    IN  IF cu = 0 THEN Unauthenticated
        ELSE IF borrow_refused(book_id) THEN Fail("borrow_book", book_id, 400)
        ELSE /\ Len(borrowings_db) < MaxBorrowings
             /\ books_db' = [books_db EXCEPT ![bi] = take_copy(@)]
             /\ \E r \in Reads2 : record_borrowing(users_db[cu].id, book_id, r)
             /\ response' = Resp("borrow_book", book_id, 200)
             /\ pre_books' = books_db
             /\ UNCHANGED <<users_db, reservations_db, events_db, pc, seen>>

----------------------------------------------------------------------------
(* POST /books/{book_id}/return *)

(* active_borrowing that also matches a record already returned *)
active_borrowing_any(book_id, user_id) ==
    First(borrowings_db, LAMBDA b : /\ b.book_id = book_id
                                    /\ b.user_id = user_id)

(* active_borrowing taking any user's active record of the book *)
active_borrowing_of_anyone(book_id, user_id) ==
    First(borrowings_db, LAMBDA b : /\ b.book_id = book_id
                                    /\ b.returned_at = None)

(* active_borrowing picking the latest match instead of the first *)
active_borrowing_latest(book_id, user_id) ==
    LET match == {i \in 1..Len(borrowings_db) :
                    /\ borrowings_db[i].book_id = book_id
                    /\ borrowings_db[i].user_id = user_id
                    /\ borrowings_db[i].returned_at = None}
    IN  IF match = {} THEN 0 ELSE CHOOSE i \in match : \A j \in match : j <= i

(* next((b for b in borrowings_db if b.book_id == book_id and
         b.user_id == current_user.id and not b.returned_at), None) *)
active_borrowing(book_id, user_id) ==
    First(borrowings_db, LAMBDA b : /\ b.book_id = book_id
                                    /\ b.user_id = user_id
                                    /\ b.returned_at = None)

return_book(token, book_id) ==
    LET cu == get_current_user(token)
        bi == find_book(book_id)
    IN  IF cu = 0 THEN Unauthenticated
        ELSE LET i == active_borrowing(book_id, users_db[cu].id)
             IN IF i = 0 THEN Fail("return_book", book_id, 400)
                ELSE /\ \E t \in now..MaxClock :
                          /\ borrowings_db' = [borrowings_db EXCEPT ![i].returned_at = t]
                          /\ now' = t
                     /\ books_db' = IF bi # 0
                                    THEN [books_db EXCEPT ![bi].available = @ + 1]
                                    ELSE books_db
                     /\ response' = Resp("return_book", book_id, 200)
                     /\ pre_books' = books_db
                     /\ UNCHANGED <<users_db, reservations_db, events_db, pc, seen>>

----------------------------------------------------------------------------
(* POST /books/{book_id}/reserve *)

(* already_reserved with all(...) where the code has any(...) *)
already_reserved_all(book_id, user_id) ==
    \A i \in 1..Len(reservations_db) :
        /\ reservations_db[i].book_id = book_id
        /\ reservations_db[i].user_id = user_id

(* any(r["book_id"] == book_id and r["user_id"] == current_user.id ...) *)
already_reserved(book_id, user_id) ==
    \E i \in 1..Len(reservations_db) :
        /\ reservations_db[i].book_id = book_id
        /\ reservations_db[i].user_id = user_id

(* if not book or book.available > 0 *)
reserve_refused(book_id) ==
    \/ find_book(book_id) = 0
    \/ books_db[find_book(book_id)].available > 0

reserve_book(token, book_id) ==
    LET cu == get_current_user(token)
    IN  IF cu = 0 THEN Unauthenticated
        ELSE IF reserve_refused(book_id) THEN Fail("reserve_book", book_id, 400)
        ELSE IF already_reserved(book_id, users_db[cu].id)
             THEN Fail("reserve_book", book_id, 400)
        ELSE /\ \E t \in now..MaxClock :
                  /\ reservations_db' = Append(reservations_db,
                         [book_id |-> book_id, user_id |-> users_db[cu].id,
                          reserved_at |-> t])
                  /\ now' = t
             /\ response' = Resp("reserve_book", book_id, 200)
             /\ pre_books' = books_db
             /\ UNCHANGED <<users_db, books_db, borrowings_db, events_db, pc, seen>>

----------------------------------------------------------------------------
(* DELETE /books/{book_id}/reserve *)

(* without_reservation dropping every reservation of the book, whoever holds it *)
without_reservation_of_book(rs, book_id, user_id) ==
    SelectSeq(rs, LAMBDA r : r.book_id # book_id)

(* [r for r in reservations_db
      if not (r["book_id"] == book_id and r["user_id"] == current_user.id)] *)
without_reservation(rs, book_id, user_id) ==
    SelectSeq(rs, LAMBDA r : ~(r.book_id = book_id /\ r.user_id = user_id))

cancel_reservation(token, book_id) ==
    LET cu == get_current_user(token)
    IN  IF cu = 0 THEN Unauthenticated
        ELSE /\ reservations_db' =
                    without_reservation(reservations_db, book_id, users_db[cu].id)
             /\ response' = Resp("cancel_reservation", book_id, 200)
             /\ pre_books' = books_db
             /\ UNCHANGED <<users_db, books_db, borrowings_db, events_db,
                            now, pc, seen>>

----------------------------------------------------------------------------
(* POST /events *)

Event(id, title, description, date, time, location, attendees) ==
    [id |-> id, title |-> title, description |-> description, date |-> date,
     time |-> time, location |-> location, attendees |-> attendees]

(* not_librarian turning away the role "user" only *)
not_librarian_user_only(user) == user.role = "user"

(* if current_user.role != "librarian" *)
not_librarian(user) == user.role # "librarian"

find_event(event_id) == First(events_db, LAMBDA e : e.id = event_id)

create_event(token, event) ==
    LET cu == get_current_user(token)
    IN  IF cu = 0 THEN Unauthenticated
        ELSE IF not_librarian(users_db[cu]) THEN Fail("create_event", event.id, 403)
        ELSE /\ Len(events_db) < MaxEvents
             /\ events_db' = Append(events_db, event)
             /\ response' = Resp("create_event", event.id, 200)
             /\ pre_books' = books_db
             /\ UNCHANGED <<users_db, books_db, reservations_db, borrowings_db,
                            now, pc, seen>>

----------------------------------------------------------------------------
(* POST /events/{event_id}/register *)

(* event.attendees.append(current_user.id) *)
attend(attendees, user_id) == Append(attendees, user_id)

register_event(token, event_id) ==
    LET cu == get_current_user(token)
        ei == find_event(event_id)
    IN  IF cu = 0 THEN Unauthenticated
        ELSE IF ei = 0 THEN Fail("register_event", event_id, 404)
        ELSE IF users_db[cu].id \in Range(events_db[ei].attendees)
             THEN Fail("register_event", event_id, 400)
        ELSE /\ events_db' = [events_db EXCEPT
                                 ![ei].attendees = attend(@, users_db[cu].id)]
             /\ response' = Resp("register_event", event_id, 200)
             /\ pre_books' = books_db
             /\ UNCHANGED <<users_db, books_db, reservations_db, borrowings_db,
                            now, pc, seen>>

----------------------------------------------------------------------------
(* DELETE /events/{event_id}/register *)

(* list.remove(x): drops the first occurrence of x *)
remove(s, x) ==
    LET i == First(s, LAMBDA y : y = x)
    IN  SubSeq(s, 1, i - 1) \o SubSeq(s, i + 1, Len(s))

cancel_event_registration(token, event_id) ==
    LET cu == get_current_user(token)
        ei == find_event(event_id)
    IN  IF cu = 0 THEN Unauthenticated
        ELSE IF ei = 0 THEN Fail("cancel_event_registration", event_id, 404)
        ELSE IF users_db[cu].id \notin Range(events_db[ei].attendees)
             THEN Fail("cancel_event_registration", event_id, 400)
        ELSE /\ events_db' = [events_db EXCEPT
                                 ![ei].attendees = remove(@, users_db[cu].id)]
             /\ response' = Resp("cancel_event_registration", event_id, 200)
             /\ pre_books' = books_db
             /\ UNCHANGED <<users_db, books_db, reservations_db, borrowings_db,
                            now, pc, seen>>

----------------------------------------------------------------------------
(* PATCH /events/{event_id} *)

(* str_or that takes the incoming value even when it is empty *)
str_or_incoming(x, y) == x

(* x or y, for str: the empty string is falsy *)
str_or(x, y) == IF x # "" THEN x ELSE y

(* x or y, for datetime: every datetime is truthy *)
datetime_or(x, y) == x

merge_event(existing, event) ==
    [existing EXCEPT
        !.title = str_or(event.title, existing.title),
        !.description = str_or(event.description, existing.description),
        !.date = datetime_or(event.date, existing.date),
        !.time = str_or(event.time, existing.time),
        !.location = str_or(event.location, existing.location)]

update_event(token, event_id, event) ==
    LET cu == get_current_user(token)
        ei == find_event(event_id)
    IN  IF cu = 0 THEN Unauthenticated
        ELSE IF not_librarian(users_db[cu]) THEN Fail("update_event", event_id, 403)
        ELSE IF ei = 0 THEN Fail("update_event", event_id, 404)
        ELSE /\ events_db' = [events_db EXCEPT ![ei] = merge_event(@, event)]
             /\ response' = Resp("update_event", event_id, 200)
             /\ pre_books' = books_db
             /\ UNCHANGED <<users_db, books_db, reservations_db, borrowings_db,
                            now, pc, seen>>

----------------------------------------------------------------------------
(* DELETE /events/{event_id} *)

(* [e for e in events_db if e.id != event_id] *)
without_event(es, event_id) == SelectSeq(es, LAMBDA e : e.id # event_id)

delete_event(token, event_id) ==
    LET cu == get_current_user(token)
    IN  IF cu = 0 THEN Unauthenticated
        ELSE IF not_librarian(users_db[cu]) THEN Fail("delete_event", event_id, 403)
        ELSE /\ events_db' = without_event(events_db, event_id)
             /\ response' = Resp("delete_event", event_id, 200)
             /\ pre_books' = books_db
             /\ UNCHANGED <<users_db, books_db, reservations_db, borrowings_db,
                            now, pc, seen>>

----------------------------------------------------------------------------
(* GET /books *)

(* a Book with the fields get_books reads; a str is the sequence of its
   characters *)
CatalogueBook(id, title, author, year, quantity, available) ==
    [id |-> id, title |-> title, author |-> author, year |-> year,
     quantity |-> quantity, available |-> available]

(* Optional[...] query parameters: Absent is None, Some(v) a given value *)
Absent == {}
Some(v) == {v}
Value(o) == CHOOSE v \in o : TRUE

(* str.lower(), on the letters the catalogue and the queries use *)
lower_char(c) ==
    CASE c = "A" -> "a" [] c = "D" -> "d" [] c = "E" -> "e"
      [] c = "N" -> "n" [] c = "U" -> "u" [] OTHER -> c

lower(s) == [i \in 1..Len(s) |-> lower_char(s[i])]

(* needle in haystack, for str *)
contains(needle, haystack) ==
    \E k \in 0..(Len(haystack) - Len(needle)) :
        SubSeq(haystack, k + 1, k + Len(needle)) = needle

(* if title: / if author: -- None and "" are both falsy *)
given_str(o) == o # Absent /\ o # Some(<<>>)

(* if year: -- None and 0 are both falsy *)
given_int(o) == o # Absent /\ o # Some(0)

(* in_stock comparing quantity where the code compares available *)
in_stock_by_quantity(b, available) == (b.quantity > 0) = available

(* (b.available > 0) == available *)
in_stock(b, available) == (b.available > 0) = available

(* lines 112-122: each filter narrows the list the one before it left *)
filter_books(books, title, author, year, available) ==
    LET by_title ==
            IF given_str(title)
            THEN SelectSeq(books, LAMBDA b : contains(lower(Value(title)), lower(b.title)))
            ELSE books
        by_author ==
            IF given_str(author)
            THEN SelectSeq(by_title,
                           LAMBDA b : contains(lower(Value(author)), lower(b.author)))
            ELSE by_title
        by_year ==
            IF given_int(year)
            THEN SelectSeq(by_author, LAMBDA b : b.year = Value(year))
            ELSE by_author
    IN  IF available # Absent
        THEN SelectSeq(by_year, LAMBDA b : in_stock(b, Value(available)))
        ELSE by_year

Query(title, author, year, available) ==
    [title |-> title, author |-> author, year |-> year, available |-> available]

get_books(title, author, year, available) ==
    /\ response' = Page("get_books", Query(title, author, year, available),
                        filter_books(books_db, title, author, year, available))
    /\ pre_books' = books_db
    /\ UNCHANGED <<stores, now, pc, seen>>

----------------------------------------------------------------------------
(* Two borrow_book requests served by two worker threads.  A thread may be
   preempted between the availability check, the decrement and the append. *)

Local(user_id, book_id, status) ==
    [user_id |-> user_id, book_id |-> book_id, status |-> status]

(* lines 130-132: look the book up and check it *)
borrow_check(th, token, book_id) ==
    LET cu == get_current_user(token)
    IN  /\ pc[th] = "idle"
        /\ IF cu = 0
           THEN /\ pc' = [pc EXCEPT ![th] = "done"]
                /\ seen' = [seen EXCEPT ![th] = Local("", book_id, 401)]
           ELSE IF borrow_refused(book_id)
           THEN /\ pc' = [pc EXCEPT ![th] = "done"]
                /\ seen' = [seen EXCEPT ![th] = Local(users_db[cu].id, book_id, 400)]
           ELSE /\ pc' = [pc EXCEPT ![th] = "checked"]
                /\ seen' = [seen EXCEPT ![th] = Local(users_db[cu].id, book_id, 0)]
        /\ UNCHANGED <<stores, now, response, pre_books>>

(* line 133 *)
borrow_decrement(th) ==
    /\ pc[th] = "checked"
    /\ books_db' = [books_db EXCEPT ![find_book(seen[th].book_id)] = take_copy(@)]
    /\ pc' = [pc EXCEPT ![th] = "decremented"]
    /\ UNCHANGED <<users_db, reservations_db, borrowings_db, events_db, now,
                   response, pre_books, seen>>

(* lines 134-141 *)
borrow_append(th) ==
    /\ pc[th] = "decremented"
    /\ \E r \in Reads2 : record_borrowing(seen[th].user_id, seen[th].book_id, r)
    /\ pc' = [pc EXCEPT ![th] = "done"]
    /\ seen' = [seen EXCEPT ![th].status = 200]
    /\ response' = Resp("borrow_book", seen[th].book_id, 200)
    /\ UNCHANGED <<users_db, books_db, reservations_db, events_db, pre_books>>

----------------------------------------------------------------------------
(* GET /users/{user_id}/borrowings *)

(* history_forbidden with "or" where the code has "and" *)
history_forbidden_either(user, user_id) ==
    user.id # user_id \/ user.role # "librarian"

(* current_user.id != user_id and current_user.role != "librarian" *)
history_forbidden(user, user_id) ==
    user.id # user_id /\ user.role # "librarian"

(* [b for b in borrowings_db if b.user_id == user_id] *)
history_of(user_id) ==
    SelectSeq(borrowings_db, LAMBDA b : b.user_id = user_id)

borrowing_history(token, user_id) ==
    LET cu == get_current_user(token)
    IN  IF cu = 0 THEN Unauthenticated
        ELSE IF history_forbidden(users_db[cu], user_id)
             THEN Fail("borrowing_history", user_id, 403)
             ELSE /\ response' = Page("borrowing_history", user_id, history_of(user_id))
                  /\ pre_books' = books_db
                  /\ UNCHANGED <<stores, now, pc, seen>>

----------------------------------------------------------------------------
(* POST /users/login *)

(* next((u for u in users_db if u.username == username
                              and u.password == password), None) *)
find_login(username, password) ==
    First(users_db, LAMBDA u : u.username = username /\ u.password = password)

login_user(username, password) ==
    IF find_login(username, password) = 0
    THEN Fail("login_user", username, 400)
    ELSE /\ response' = Page("login_user", username,
                             [access_token |-> users_db[find_login(username, password)].username,
                              token_type |-> "bearer"])
         /\ pre_books' = books_db
         /\ UNCHANGED <<stores, now, pc, seen>>

----------------------------------------------------------------------------
(* cancel_reservation and delete_event served by a worker thread that may be
   preempted between building the filtered list and binding the global name
   to it; a handler that appends meanwhile appends to the list the name is
   still bound to. *)

Rebuilt(user_id, key, built) ==
    [user_id |-> user_id, book_id |-> key, status |-> 0, built |-> built]

(* line 271, right-hand side: [r for r in reservations_db if not (...)] *)
cancel_filter(th, token, book_id) ==
    LET cu == get_current_user(token)
    IN  /\ pc[th] = "idle"
        /\ IF cu = 0
           THEN /\ pc' = [pc EXCEPT ![th] = "done"]
                /\ seen' = [seen EXCEPT ![th] = Local("", book_id, 401)]
           ELSE /\ pc' = [pc EXCEPT ![th] = "filtered_reservations"]
                /\ seen' = [seen EXCEPT ![th] =
                       Rebuilt(users_db[cu].id, book_id,
                               without_reservation(reservations_db, book_id,
                                                   users_db[cu].id))]
        /\ UNCHANGED <<stores, now, response, pre_books>>

(* line 271, the assignment: reservations_db = <the list built> *)
cancel_rebind(th) ==
    /\ pc[th] = "filtered_reservations"
    /\ reservations_db' = seen[th].built
    /\ pc' = [pc EXCEPT ![th] = "done"]
    /\ seen' = [seen EXCEPT ![th] = Local(seen[th].user_id, seen[th].book_id, 200)]
    /\ response' = Resp("cancel_reservation", seen[th].book_id, 200)
    /\ UNCHANGED <<users_db, books_db, borrowings_db, events_db, now, pre_books>>

(* lines 243-246, right-hand side: [e for e in events_db if e.id != event_id] *)
delete_filter(th, token, event_id) ==
    LET cu == get_current_user(token)
    IN  /\ pc[th] = "idle"
        /\ IF cu = 0
           THEN /\ pc' = [pc EXCEPT ![th] = "done"]
                /\ seen' = [seen EXCEPT ![th] = Local("", event_id, 401)]
           ELSE IF not_librarian(users_db[cu])
           THEN /\ pc' = [pc EXCEPT ![th] = "done"]
                /\ seen' = [seen EXCEPT ![th] = Local(users_db[cu].id, event_id, 403)]
           ELSE /\ pc' = [pc EXCEPT ![th] = "filtered_events"]
                /\ seen' = [seen EXCEPT ![th] =
                       Rebuilt(users_db[cu].id, event_id,
                               without_event(events_db, event_id))]
        /\ UNCHANGED <<stores, now, response, pre_books>>

(* line 246, the assignment: events_db = <the list built> *)
delete_rebind(th) ==
    /\ pc[th] = "filtered_events"
    /\ events_db' = seen[th].built
    /\ pc' = [pc EXCEPT ![th] = "done"]
    /\ seen' = [seen EXCEPT ![th] = Local(seen[th].user_id, seen[th].book_id, 200)]
    /\ response' = Resp("delete_event", seen[th].book_id, 200)
    /\ UNCHANGED <<users_db, books_db, reservations_db, borrowings_db, now, pre_books>>

----------------------------------------------------------------------------
(* Specifications *)

NoRequest == Resp("", "", 0)

(* the module as loaded: every store is the empty list *)
Init ==
    /\ users_db = <<>>
    /\ books_db = <<>>
    /\ reservations_db = <<>>
    /\ borrowings_db = <<>>
    /\ events_db = <<>>
    /\ now = 0
    /\ response = NoRequest
    /\ pre_books = <<>>
    /\ pc = [t \in Threads |-> "idle"]
    /\ seen = [t \in Threads |-> Local("", "", 0)]

Register ==
    \E id \in UserIds, username \in Usernames, role \in Roles :
        register_user(User(id, username, role))

Spec == Init /\ [][Register]_vars

(* User stores that two register_user requests build: alice, then bob the
   librarian, whose request body may carry any id, alice's included.  The
   requests on books and events start from one of them. *)
SeedUsers ==
    { <<User("u1", "alice", r), User(i, "bob", "librarian")>> :
        r \in {"user", "admin"}, i \in UserIds }

LoanUsers == {us \in SeedUsers : us[1].role = "user" /\ us[2].id = "u2"}

(* Book stores.  No handler of this file adds a book, so the requests on books
   start from a store that holds some: distinct ids, 0 <= available <= quantity,
   every copy on the shelf or one of them out.  One book of any quantity, or
   two single-copy books. *)
Stock == {qa \in (1..MaxQuantity) \X (0..MaxQuantity) : qa[2] \in {qa[1] - 1, qa[1]}}

SeedBooks ==
    { <<Book("b1", x[1], x[2])>> : x \in Stock }
        \cup { <<Book("b1", 1, 0), Book("b2", 1, 1)>> }

LoanBooks == SeedBooks \cup { <<Book("b1", 1, 1), Book("b2", 1, 1)>> }

InitLoans ==
    /\ users_db \in LoanUsers
    /\ books_db \in LoanBooks
    /\ reservations_db = <<>>
    /\ borrowings_db = <<>>
    /\ events_db = <<>>
    /\ now = 0
    /\ response = NoRequest
    /\ pre_books = books_db
    /\ pc = [t \in Threads |-> "idle"]
    /\ seen = [t \in Threads |-> Local("", "", 0)]

Borrow == \E token \in Tokens, book_id \in BookArgs : borrow_book(token, book_id)
Return == \E token \in Tokens, book_id \in BookArgs : return_book(token, book_id)
Reserve == \E token \in Tokens, book_id \in BookArgs : reserve_book(token, book_id)
CancelReservation ==
    \E token \in Tokens, book_id \in BookArgs : cancel_reservation(token, book_id)

NextLoans == Borrow \/ Return

SpecLoans == InitLoans /\ [][NextLoans]_vars

(* borrow and return together with reserve and cancel; the clock has reached
   MaxClock, so every utcnow() reads MaxClock *)
InitReserve ==
    /\ users_db \in LoanUsers
    /\ books_db \in SeedBooks
    /\ reservations_db = <<>>
    /\ borrowings_db = <<>>
    /\ events_db = <<>>
    /\ now = MaxClock
    /\ response = NoRequest
    /\ pre_books = books_db
    /\ pc = [t \in Threads |-> "idle"]
    /\ seen = [t \in Threads |-> Local("", "", 0)]

NextReserve == Borrow \/ Return \/ Reserve \/ CancelReservation

SpecReserve == InitReserve /\ [][NextReserve]_vars

(* request bodies of the event handlers: one with every field set, one with
   every str field empty *)
EventFields ==
    { [title |-> "Talk", description |-> "Authors", date |-> 1,
       time |-> "10:00", location |-> "Hall"],
      [title |-> "", description |-> "", date |-> 2,
       time |-> "", location |-> ""] }

(* attendees a request body may carry: none, or the same id twice *)
BodyAttendees == { <<>>, <<"u1", "u1">> }

FullFields == {f \in EventFields : f.title # ""}

(* POST bodies: every field set; any id, any attendees *)
EventBodies ==
    { Event(id, f.title, f.description, f.date, f.time, f.location, a) :
        id \in EventIds, f \in FullFields, a \in BodyAttendees }

(* PATCH bodies: an id and attendees that belong to no stored event *)
PatchBodies ==
    { Event("e9", f.title, f.description, f.date, f.time, f.location, <<"u2">>) :
        f \in EventFields }

EventUsers == {us \in SeedUsers : us[2].id = "u2"}

InitEvents ==
    /\ users_db \in EventUsers
    /\ books_db = <<>>
    /\ reservations_db = <<>>
    /\ borrowings_db = <<>>
    /\ events_db = <<>>
    /\ now = 0
    /\ response = NoRequest
    /\ pre_books = books_db
    /\ pc = [t \in Threads |-> "idle"]
    /\ seen = [t \in Threads |-> Local("", "", 0)]

CreateEvent == \E token \in Tokens, event \in EventBodies : create_event(token, event)
RegisterEvent ==
    \E token \in Tokens, event_id \in EventArgs : register_event(token, event_id)
CancelEventRegistration ==
    \E token \in Tokens, event_id \in EventArgs :
        cancel_event_registration(token, event_id)
UpdateEvent ==
    \E token \in Tokens, event_id \in EventArgs, event \in PatchBodies :
        update_event(token, event_id, event)
DeleteEvent ==
    \E token \in Tokens, event_id \in EventArgs : delete_event(token, event_id)

NextEvents ==
    CreateEvent \/ RegisterEvent \/ CancelEventRegistration \/ UpdateEvent
        \/ DeleteEvent

SpecEvents == InitEvents /\ [][NextEvents]_vars

(* two requests in flight over one book; pre_books keeps the stock they found *)
RaceBooks == {bs \in SeedBooks : Len(bs) = 1}

InitRace ==
    /\ users_db \in LoanUsers
    /\ books_db \in RaceBooks
    /\ reservations_db = <<>>
    /\ borrowings_db = <<>>
    /\ events_db = <<>>
    /\ now = 0
    /\ response = NoRequest
    /\ pre_books = books_db
    /\ pc = [t \in Threads |-> "idle"]
    /\ seen = [t \in Threads |-> Local("", "", 0)]

BorrowCheck ==
    \E th \in Threads, token \in Tokens, book_id \in BookArgs :
        borrow_check(th, token, book_id)
BorrowDecrement == \E th \in Threads : borrow_decrement(th)
BorrowAppend == \E th \in Threads : borrow_append(th)

NextRace == BorrowCheck \/ BorrowDecrement \/ BorrowAppend

SpecRace == InitRace /\ [][NextRace]_vars

(* loans and the borrowing history read back by the borrower, by another
   member and by a librarian; the clock has reached MaxClock *)
UserArgs == UserIds \cup {"u9"}

InitHistory ==
    /\ users_db \in SeedUsers
    /\ books_db \in SeedBooks
    /\ reservations_db = <<>>
    /\ borrowings_db = <<>>
    /\ events_db = <<>>
    /\ now = MaxClock
    /\ response = NoRequest
    /\ pre_books = books_db
    /\ pc = [t \in Threads |-> "idle"]
    /\ seen = [t \in Threads |-> Local("", "", 0)]

History == \E token \in Tokens, user_id \in UserArgs : borrowing_history(token, user_id)

NextHistory == Borrow \/ Return \/ History

SpecHistory == InitHistory /\ [][NextHistory]_vars

(* registration, login and two authenticated handlers from the empty
   stores: every token is unknown at first and may become a username *)
Passwords == {"secret", "hunter2"}

SignUp ==
    \E id \in UserIds, username \in Tokens, password \in Passwords :
        register_user(Member(id, username, password, "user"))

Login == \E username \in Tokens, password \in Passwords : login_user(username, password)

NextAuth == SignUp \/ Login \/ History \/ CancelReservation

SpecAuth == Init /\ [][NextAuth]_vars

(* update_event alone, on events a librarian created: PATCH bodies set or
   leave empty the title and the description each on its own and one of time
   and location, and carry a later date *)
Created(id, attendees) == Event(id, "Talk", "Authors", 1, "10:00", "Hall", attendees)

SeedEvents ==
    { <<Created("e1", <<"u1", "u1">>)>>,
      <<Created("e1", <<>>), Created("e2", <<"u1", "u1">>)>>,
      <<Created("e1", <<>>), Created("e1", <<"u1", "u1">>)>> }

MergeBodies ==
    { Event("e9", title, description, 2, place[1], place[2], <<"u2">>) :
        title \in {"", "Reading"}, description \in {"", "Poets"},
        place \in {<<"", "Yard">>, <<"18:00", "">>} }

InitPatch ==
    /\ users_db \in EventUsers
    /\ books_db = <<>>
    /\ reservations_db = <<>>
    /\ borrowings_db = <<>>
    /\ events_db \in SeedEvents
    /\ now = 0
    /\ response = NoRequest
    /\ pre_books = books_db
    /\ pc = [t \in Threads |-> "idle"]
    /\ seen = [t \in Threads |-> Local("", "", 0)]

Patch ==
    \E token \in Tokens, event_id \in EventArgs, event \in MergeBodies :
        update_event(token, event_id, event)

NextPatch == Patch

SpecPatch == InitPatch /\ [][NextPatch]_vars

(* get_books over a shelf of up to MaxShelf catalogue books: two titles, two
   authors, a book whose year is 0, and stock that is all out, in, or
   oversold by the borrow race *)
Dune == <<"D", "u", "n", "e">>
Emma == <<"E", "m", "m", "a">>
Ann == <<"A", "n", "n">>
Dan == <<"D", "a", "n">>

Catalogue ==
    { CatalogueBook("b1", Dune, Ann, 1965, 2, 0),
      CatalogueBook("b2", Dune, Dan, 0, 1, 1),
      CatalogueBook("b3", Emma, Dan, 1965, 1, -1),
      CatalogueBook("b4", Emma, Ann, 1965, 1, 1) }

Shelves == UNION { [1..n -> Catalogue] : n \in 0..MaxShelf }

TitleQueries == {Absent, Some(<<>>), Some(<<"U", "N">>)}
AuthorQueries == {Absent, Some(<<"a", "n">>), Some(<<"d", "A">>)}
YearQueries == {Absent, Some(0), Some(1965)}
AvailableQueries == {Absent, Some(TRUE), Some(FALSE)}

InitBooks ==
    /\ users_db = <<>>
    /\ books_db \in Shelves
    /\ reservations_db = <<>>
    /\ borrowings_db = <<>>
    /\ events_db = <<>>
    /\ now = 0
    /\ response = NoRequest
    /\ pre_books = books_db
    /\ pc = [t \in Threads |-> "idle"]
    /\ seen = [t \in Threads |-> Local("", "", 0)]

GetBooks ==
    \E title \in TitleQueries, author \in AuthorQueries, year \in YearQueries,
       available \in AvailableQueries :
        get_books(title, author, year, available)

NextBooks == GetBooks

SpecBooks == InitBooks /\ [][NextBooks]_vars

(* one cancel_reservation or delete_event in flight on a worker thread while
   reserve_book and create_event requests are served whole on others; the one
   book is out of stock so that it can be reserved; the clock has reached
   MaxClock *)
Rebuilders == {1}

OutOfStock == { <<Book("b1", q, 0)>> : q \in 1..MaxQuantity }

InitRebuild ==
    /\ users_db \in LoanUsers
    /\ books_db \in OutOfStock
    /\ reservations_db = <<>>
    /\ borrowings_db = <<>>
    /\ events_db = <<>>
    /\ now = MaxClock
    /\ response = NoRequest
    /\ pre_books = books_db
    /\ pc = [t \in Threads |-> "idle"]
    /\ seen = [t \in Threads |-> Local("", "", 0)]

CancelFilter ==
    \E th \in Rebuilders, token \in Tokens, book_id \in BookArgs :
        cancel_filter(th, token, book_id)
CancelRebind == \E th \in Rebuilders : cancel_rebind(th)
DeleteFilter ==
    \E th \in Rebuilders, token \in Tokens, event_id \in EventArgs :
        delete_filter(th, token, event_id)
DeleteRebind == \E th \in Rebuilders : delete_rebind(th)
CreatePlain ==
    \E token \in Tokens, id \in EventIds : create_event(token, Created(id, <<>>))

NextRebuild ==
    CancelFilter \/ CancelRebind \/ DeleteFilter \/ DeleteRebind
        \/ Reserve \/ CreatePlain

SpecRebuild == InitRebuild /\ [][NextRebuild]_vars

----------------------------------------------------------------------------
(* Properties *)

Authenticated(token) == get_current_user(token) # 0
Caller(token) == users_db[get_current_user(token)]
HasBook(book_id) == \E i \in 1..Len(books_db) : books_db[i].id = book_id
BookOf(books, book_id) == books[CHOOSE i \in 1..Len(books) : books[i].id = book_id]
InStock(book_id) == HasBook(book_id) /\ BookOf(books_db, book_id).available > 0
Last(s) == s[Len(s)]

(* the step just taken entered handler op: get_current_user let the caller in *)
Served(op) == response'.op = op

(* C1: every book keeps 0 <= available <= quantity through any sequence of
   borrow_book and return_book requests served one at a time *)
C1_AvailableWithinQuantity ==
    \A i \in 1..Len(books_db) :
        /\ 0 <= books_db[i].available
        /\ books_db[i].available <= books_db[i].quantity

(* a book that was borrowed and returned is back at its full quantity *)
C1_Witness ==
    /\ response.op = "return_book" /\ response.status = 200
    /\ HasBook(response.arg)
    /\ BookOf(books_db, response.arg).available = BookOf(books_db, response.arg).quantity
    /\ \E i \in 1..Len(borrowings_db) : borrowings_db[i].returned_at # None

(* the step in which the caller of the borrow_book just answered returns
   the same book *)
ReturnsAfterBorrow(token, book_id) ==
    /\ response = Resp("borrow_book", book_id, 200)
    /\ Authenticated(token)
    /\ Last(borrowings_db).user_id = Caller(token).id
    /\ return_book(token, book_id)

(* C3, as claimed: borrow_book then return_book of the same book by the same
   user restores available, sets returned_at on the record the borrow created
   and keeps that record's due_date *)
C3_ReturnClosesNewRecord ==
    [][\A token \in Tokens, book_id \in BookArgs :
         ReturnsAfterBorrow(token, book_id) =>
            /\ response'.status = 200
            /\ BookOf(books_db', book_id).available
                   = BookOf(pre_books, book_id).available
            /\ Last(borrowings_db').returned_at # None
            /\ Last(borrowings_db').due_date = Last(borrowings_db).due_date]_vars

(* C3, amended: returned_at is set on the caller's earliest active record of
   the book, which is the record the borrow created when the caller held no
   other copy of it; available is restored and no due_date changes *)
C3_ReturnClosesEarliestRecord ==
    [][\A token \in Tokens, book_id \in BookArgs :
         ReturnsAfterBorrow(token, book_id) =>
            LET mine == {i \in 1..Len(borrowings_db) :
                            /\ borrowings_db[i].book_id = book_id
                            /\ borrowings_db[i].user_id = Caller(token).id
                            /\ borrowings_db[i].returned_at = None}
                first == CHOOSE i \in mine : \A j \in mine : i <= j
            IN  /\ response'.status = 200
                /\ BookOf(books_db', book_id).available
                       = BookOf(pre_books, book_id).available
                /\ Len(borrowings_db') = Len(borrowings_db)
                /\ borrowings_db'[first].returned_at # None
                /\ mine = {Len(borrowings_db)} => Last(borrowings_db').returned_at # None
                /\ \A i \in 1..Len(borrowings_db) :
                      /\ borrowings_db'[i].due_date = borrowings_db[i].due_date
                      /\ i # first => borrowings_db'[i] = borrowings_db[i]]_vars

(* a user holding two copies of a book has returned one: the earlier record is
   closed, the later one is still active *)
C3_Witness ==
    /\ response.op = "return_book" /\ response.status = 200
    /\ Len(borrowings_db) = 2
    /\ borrowings_db[1].user_id = borrowings_db[2].user_id
    /\ borrowings_db[1].book_id = borrowings_db[2].book_id
    /\ borrowings_db[1].returned_at # None
    /\ borrowings_db[2].returned_at = None

(* C4: for an authenticated caller borrow_book answers 200 exactly when the book
   exists with available > 0, and 400 otherwise with every store unchanged; on
   200 available drops by one and one Borrowing for (caller, book) is appended *)
C4_BorrowOutcome ==
    [][\A token \in Tokens, book_id \in BookArgs :
         ( /\ Served("borrow_book") /\ response'.arg = book_id
           /\ Authenticated(token) /\ borrow_book(token, book_id) ) =>
            /\ response'.status = 200 <=> InStock(book_id)
            /\ ~InStock(book_id) => (response'.status = 400 /\ UNCHANGED stores)
            /\ InStock(book_id) =>
                 /\ \A i \in 1..Len(books_db) :
                       books_db'[i] =
                          IF books_db[i].id = book_id
                          THEN [books_db[i] EXCEPT !.available = @ - 1]
                          ELSE books_db[i]
                 /\ Len(borrowings_db') = Len(borrowings_db) + 1
                 /\ SubSeq(borrowings_db', 1, Len(borrowings_db)) = borrowings_db
                 /\ Last(borrowings_db').user_id = Caller(token).id
                 /\ Last(borrowings_db').book_id = book_id
                 /\ UNCHANGED <<users_db, reservations_db, events_db>>]_vars

(* a borrow of a book with no copy left was refused *)
C4_Witness ==
    /\ response = Resp("borrow_book", response.arg, 400)
    /\ HasBook(response.arg)
    /\ BookOf(books_db, response.arg).available = 0
    /\ books_db = pre_books

(* C5: register_user fails on a username already in the store (compared
   case-sensitively), leaving the store as it was, and appends the user
   otherwise; no two stored users share a username *)
C5_UniqueUsernames ==
    [][/\ \A i, j \in 1..Len(users_db') :
             users_db'[i].username = users_db'[j].username => i = j
       /\ \A id \in UserIds, username \in Usernames, role \in Roles :
             register_user(User(id, username, role)) =>
                IF \E i \in 1..Len(users_db) : users_db[i].username = username
                THEN response'.status = 400 /\ users_db' = users_db
                ELSE /\ response'.status = 200
                     /\ users_db' = Append(users_db, User(id, username, role))]_vars

(* a second registration of a stored username was refused; one such user
   remains, next to a user whose name differs from it in case only *)
C5_Witness ==
    /\ response = Resp("register_user", "alice", 400)
    /\ Cardinality({i \in 1..Len(users_db) : users_db[i].username = "alice"}) = 1
    /\ \E i \in 1..Len(users_db) : users_db[i].username = "Alice"

(* the threads that answered 200 *)
Lent == {th \in Threads : pc[th] = "done" /\ seen[th].status = 200}

(* C2: two borrow_book requests for a book with one copy left, interleaved
   between the availability check and the decrement, both answer 200: whenever
   both have been served, two Borrowing records stand and available is -1 *)
C2_LastCopyBorrowedTwice ==
    \A book_id \in BookIds :
        ( /\ Lent = Threads
          /\ \A th \in Threads : seen[th].book_id = book_id
          /\ BookOf(pre_books, book_id).available = 1 )
        => /\ BookOf(books_db, book_id).available = -1
           /\ Len(borrowings_db) = 2
           /\ \A i \in 1..2 : borrowings_db[i].book_id = book_id

(* both requests for the last copy were served and available is negative *)
C2_Witness ==
    /\ Lent = Threads
    /\ pre_books = <<Book("b1", 1, 1)>>
    /\ books_db = <<Book("b1", 1, -1)>>
    /\ Len(borrowings_db) = 2

NoDuplicates(s) == \A i, j \in 1..Len(s) : s[i] = s[j] => i = j

(* C6: no event lists a user id twice among its attendees, and register_event
   by a user who already attends answers 400 and leaves the list as it was *)
C6_NoDuplicateAttendees ==
    [][/\ \A i \in 1..Len(events_db') : NoDuplicates(events_db'[i].attendees)
       /\ \A token \in Tokens, event_id \in EventArgs :
             ( /\ Served("register_event") /\ response'.arg = event_id
               /\ Authenticated(token)
               /\ find_event(event_id) # 0
               /\ Caller(token).id \in Range(events_db[find_event(event_id)].attendees)
               /\ register_event(token, event_id) )
             => (response'.status = 400 /\ events_db' = events_db)]_vars

HasReservation(book_id, user_id) ==
    \E i \in 1..Len(reservations_db) :
        reservations_db[i].book_id = book_id /\ reservations_db[i].user_id = user_id

MayReserve(token, book_id) ==
    /\ HasBook(book_id)
    /\ BookOf(books_db, book_id).available <= 0
    /\ ~HasReservation(book_id, Caller(token).id)

(* C7: for an authenticated caller reserve_book answers 200 exactly when the
   book exists, has no copy available and the caller holds no reservation for
   it; otherwise it answers 400 and the reservation store is unchanged; the
   store never holds two reservations of one (book_id, user_id) *)
C7_ReserveOutcome ==
    [][/\ \A i, j \in 1..Len(reservations_db') :
             ( /\ reservations_db'[i].book_id = reservations_db'[j].book_id
               /\ reservations_db'[i].user_id = reservations_db'[j].user_id ) => i = j
       /\ \A token \in Tokens, book_id \in BookArgs :
             ( /\ Served("reserve_book") /\ response'.arg = book_id
               /\ Authenticated(token) /\ reserve_book(token, book_id) ) =>
                /\ response'.status = 200 <=> MayReserve(token, book_id)
                /\ ~MayReserve(token, book_id) =>
                      (response'.status = 400 /\ reservations_db' = reservations_db)
                /\ MayReserve(token, book_id) =>
                      /\ Len(reservations_db') = Len(reservations_db) + 1
                      /\ Last(reservations_db').book_id = book_id
                      /\ Last(reservations_db').user_id = Caller(token).id]_vars

(* a user who holds a reservation for an unavailable book was refused a
   second one: every user holds one for that book *)
C7_Witness ==
    /\ response.op = "reserve_book" /\ response.status = 400
    /\ HasBook(response.arg)
    /\ BookOf(books_db, response.arg).available = 0
    /\ \A i \in 1..Len(users_db) : HasReservation(response.arg, users_db[i].id)

(* C8: for an authenticated caller cancel_reservation answers 200, keeps in
   order exactly the reservations that are not (book, caller), leaves the
   store as it was when the caller holds none for the book, and cancelling
   again changes nothing more *)
C8_CancelRemovesOwn ==
    [][\A token \in Tokens, book_id \in BookArgs :
         ( /\ Served("cancel_reservation") /\ response'.arg = book_id
           /\ Authenticated(token) /\ cancel_reservation(token, book_id) ) =>
            /\ response'.status = 200
            /\ reservations_db' =
                  SelectSeq(reservations_db,
                            LAMBDA r : r.book_id # book_id
                                         \/ r.user_id # Caller(token).id)
            /\ ~HasReservation(book_id, Caller(token).id)
                  => reservations_db' = reservations_db
            /\ without_reservation(reservations_db', book_id, Caller(token).id)
                  = reservations_db']_vars

(* a cancellation went through and another user's reservation for the same
   book is still in the store *)
C8_Witness ==
    /\ response.op = "cancel_reservation" /\ response.status = 200
    /\ Len(reservations_db) = 1
    /\ reservations_db[1].book_id = response.arg
    /\ pre_books = books_db

(* C9: reserve_book and cancel_reservation leave books_db unchanged,
   borrow_book and return_book leave reservations_db unchanged, and borrow_book
   answers 200 exactly when the book has a copy available, whoever holds
   reservations for it *)
C9_ReservationsApart ==
    [][/\ response'.op \in {"reserve_book", "cancel_reservation"}
             => books_db' = books_db
       /\ response'.op \in {"borrow_book", "return_book"}
             => reservations_db' = reservations_db
       /\ Served("borrow_book")
             => (response'.status = 200 <=> InStock(response'.arg))]_vars

(* a book was borrowed while another user held a reservation for it *)
C9_Witness ==
    /\ response.op = "borrow_book" /\ response.status = 200
    /\ \E i \in 1..Len(reservations_db) :
          /\ reservations_db[i].book_id = response.arg
          /\ reservations_db[i].user_id # Last(borrowings_db).user_id

(* what create_event, update_event and delete_event may change of an event *)
Details(es) ==
    [i \in 1..Len(es) |->
        [id |-> es[i].id, title |-> es[i].title, description |-> es[i].description,
         date |-> es[i].date, time |-> es[i].time, location |-> es[i].location]]

LibrarianStep ==
    \E token \in Tokens :
        /\ Authenticated(token)
        /\ Caller(token).role = "librarian"
        /\ \/ /\ Served("create_event")
              /\ \E event \in EventBodies : create_event(token, event)
           \/ /\ Served("update_event")
              /\ \E event \in PatchBodies :
                    update_event(token, response'.arg, event)
           \/ /\ Served("delete_event")
              /\ delete_event(token, response'.arg)

(* C10: create_event, update_event and delete_event called by a user whose
   role is not librarian answer 403 and leave events_db unchanged; the events
   and their title, description, date, time and location change only in a
   step taken by a librarian *)
C10_LibrarianOnly ==
    [][/\ response'.op \in {"create_event", "update_event", "delete_event"} =>
             \A token \in Tokens :
                (Authenticated(token) /\ Caller(token).role # "librarian") =>
                   /\ \A event \in EventBodies :
                         (Served("create_event") /\ create_event(token, event))
                            => (response'.status = 403 /\ events_db' = events_db)
                   /\ \A event \in PatchBodies :
                         ( /\ Served("update_event")
                           /\ update_event(token, response'.arg, event) )
                            => (response'.status = 403 /\ events_db' = events_db)
                   /\ (Served("delete_event") /\ delete_event(token, response'.arg))
                         => (response'.status = 403 /\ events_db' = events_db)
       /\ (events_db' # events_db /\ Details(events_db') # Details(events_db))
             => LibrarianStep]_vars

(* a user who is neither "user" nor "librarian" was refused the update of a
   stored event *)
C10_Witness ==
    /\ response.op = "update_event" /\ response.status = 403
    /\ find_event(response.arg) # 0
    /\ users_db[1].role = "admin"

(* C11: borrowing_history for user U answers 200 exactly when the caller's
   id is U or the caller's role is librarian, and the body is then exactly
   the borrowing records whose user_id is U, returned and active alike, in
   store order; any other authenticated caller gets 403.  No store changes
   either way. *)
RecordsOf(user_id) ==
    {i \in 1..Len(borrowings_db) : borrowings_db[i].user_id = user_id}

ExactlyRecordsOf(body, user_id) ==
    /\ Len(body) = Cardinality(RecordsOf(user_id))
    /\ \A i \in RecordsOf(user_id) :
           body[Cardinality({j \in RecordsOf(user_id) : j <= i})] = borrowings_db[i]

C11_HistoryOutcome ==
    [][Served("borrowing_history") =>
         \A token \in Tokens :
             (Authenticated(token) /\ borrowing_history(token, response'.arg)) =>
                 /\ UNCHANGED <<stores, now>>
                 /\ IF \/ Caller(token).id = response'.arg
                       \/ Caller(token).role = "librarian"
                    THEN /\ response'.status = 200
                         /\ ExactlyRecordsOf(response'.body, response'.arg)
                    ELSE response'.status = 403]_vars

(* a librarian has read a member's history holding a returned record and an
   active one *)
C11_Witness ==
    /\ response.op = "borrowing_history"
    /\ response.status = 200
    /\ Len(response.body) = 2
    /\ response.body[1].returned_at # None
    /\ response.body[2].returned_at = None
    /\ \E i \in 1..Len(users_db) :
           users_db[i].role = "librarian" /\ users_db[i].id # response.arg

(* C12: a token authenticates exactly when it is the username of a stored
   user; once it does, it resolves to that same user after every later
   request (no expiry, no revocation); a request bearing a token that is no
   stored username is answered 401 with every store unchanged; the token
   that login_user issues is the username and authenticates its user. *)
IsUsername(token) == \E i \in 1..Len(users_db) : users_db[i].username = token

BearerStep(token) ==
    \/ \E user_id \in UserArgs : borrowing_history(token, user_id)
    \/ \E book_id \in BookArgs : cancel_reservation(token, book_id)

C12_TokenIsUsername ==
    [][/\ \A token \in Tokens :
            /\ Authenticated(token) <=> IsUsername(token)
            /\ Authenticated(token) =>
                   /\ get_current_user(token)' # 0
                   /\ Caller(token)' = Caller(token)
                   /\ Caller(token).username = token
            /\ (~IsUsername(token) /\ response'.status = 401 /\ BearerStep(token)) =>
                   UNCHANGED <<stores, now>>
            /\ (~IsUsername(token) /\ response'.op \in {"borrowing_history", "cancel_reservation"}) =>
                   ~BearerStep(token)
       /\ (Served("login_user") /\ response'.status = 200) =>
              /\ response'.body.access_token = response'.arg
              /\ Authenticated(response'.arg)
              /\ \E password \in Passwords :
                     get_current_user(response'.arg) = find_login(response'.arg, password)
       /\ response'.status = 401 => UNCHANGED <<stores, now>>]_vars

(* a second user has registered since, and the first user's token still lets
   its holder in *)
C12_Witness ==
    /\ Len(users_db) = 2
    /\ response.op = "cancel_reservation"
    /\ response.status = 200
    /\ users_db[1].username \in Tokens
    /\ get_current_user(users_db[1].username) = 1

(* C13: no two users in users_db have the same id, whatever id the
   register_user bodies carried. *)
C13_UniqueUserIds ==
    \A i, j \in 1..Len(users_db) :
        users_db[i].id = users_db[j].id => i = j

(* C14: borrowings_db only grows at its end: every step keeps each record
   already stored at its place with its id, user_id, book_id, borrowed_at and
   due_date, and a returned_at that is set stays what it is. *)
C14_BorrowingsAppendOnly ==
    [][borrowings_db' # borrowings_db =>
         /\ Len(borrowings_db') >= Len(borrowings_db)
         /\ \A i \in 1..Len(borrowings_db) :
                /\ borrowings_db'[i].id = borrowings_db[i].id
                /\ borrowings_db'[i].user_id = borrowings_db[i].user_id
                /\ borrowings_db'[i].book_id = borrowings_db[i].book_id
                /\ borrowings_db'[i].borrowed_at = borrowings_db[i].borrowed_at
                /\ borrowings_db'[i].due_date = borrowings_db[i].due_date
                /\ borrowings_db[i].returned_at # None =>
                       borrowings_db'[i].returned_at = borrowings_db[i].returned_at]_vars

(* a record returned at an earlier reading of the clock, and a later
   return_book of the same book turned down *)
C14_Witness ==
    /\ response.op = "return_book"
    /\ response.status = 400
    /\ now = MaxClock
    /\ \E i \in 1..Len(borrowings_db) :
           /\ borrowings_db[i].book_id = response.arg
           /\ borrowings_db[i].returned_at # None
           /\ borrowings_db[i].returned_at < now

(* C15: register_event and cancel_event_registration answer 404 when no event
   has the id and 400 when the caller is already (register) or is not
   (cancel) an attendee, with events_db unchanged; on success the caller's id
   alone joins or leaves the event's attendees, no other event changes, and
   after a successful cancel the caller is not an attendee. *)
Members(events, i) == Range(events[i].attendees)

OthersKept(ei) ==
    /\ Len(events_db') = Len(events_db)
    /\ \A j \in 1..Len(events_db) : j # ei => events_db'[j] = events_db[j]

C15_OwnMembershipOnly ==
    [][response'.op \in {"register_event", "cancel_event_registration"} =>
         \A token \in Tokens :
            Authenticated(token) =>
               LET id == Caller(token).id
                   ei == find_event(response'.arg)
               IN  /\ (Served("register_event") /\ register_event(token, response'.arg)) =>
                         IF ei = 0
                         THEN response'.status = 404 /\ events_db' = events_db
                         ELSE IF id \in Members(events_db, ei)
                         THEN response'.status = 400 /\ events_db' = events_db
                         ELSE /\ response'.status = 200
                              /\ OthersKept(ei)
                              /\ Members(events_db', ei) = Members(events_db, ei) \cup {id}
                   /\ ( /\ Served("cancel_event_registration")
                        /\ cancel_event_registration(token, response'.arg) ) =>
                         IF ei = 0
                         THEN response'.status = 404 /\ events_db' = events_db
                         ELSE IF id \notin Members(events_db, ei)
                         THEN response'.status = 400 /\ events_db' = events_db
                         ELSE /\ response'.status = 200
                              /\ OthersKept(ei)
                              /\ Members(events_db', ei) = Members(events_db, ei) \ {id}]_vars

(* C16: every Borrowing record has due_date = borrowed_at + 14 days,
   whatever the clock did while borrow_book ran. *)
C16_DueFourteenDaysAfterBorrowed ==
    \A i \in 1..Len(borrowings_db) :
        borrowings_db[i].due_date = borrowings_db[i].borrowed_at + LoanDays

(* C17: update_event by a librarian on a stored event sets each of title,
   description, time and location to the body's value when that value is
   non-empty and keeps the stored value otherwise, sets date to the body's
   date (a datetime is always truthy), keeps the stored id and attendees
   whatever the body's id and attendees are, and changes no other event; for
   an id no event has it answers 404 and changes nothing. *)
Truthy(incoming, stored) == IF incoming = "" THEN stored ELSE incoming

C17_TruthyMerge ==
    [][Served("update_event") =>
         \A token \in Tokens :
            (Authenticated(token) /\ Caller(token).role = "librarian") =>
               \A event \in MergeBodies :
                  update_event(token, response'.arg, event) =>
                     LET ei == find_event(response'.arg)
                     IN  IF ei = 0
                         THEN response'.status = 404 /\ events_db' = events_db
                         ELSE /\ response'.status = 200
                              /\ OthersKept(ei)
                              /\ events_db'[ei].id = events_db[ei].id
                              /\ events_db'[ei].attendees = events_db[ei].attendees
                              /\ events_db'[ei].title = Truthy(event.title, events_db[ei].title)
                              /\ events_db'[ei].description =
                                     Truthy(event.description, events_db[ei].description)
                              /\ events_db'[ei].date = event.date
                              /\ events_db'[ei].time = Truthy(event.time, events_db[ei].time)
                              /\ events_db'[ei].location =
                                     Truthy(event.location, events_db[ei].location)]_vars

(* a PATCH with a title and an empty description went through: the title and
   the date are the body's, the description, id and attendees the stored ones *)
C17_Witness ==
    /\ response.op = "update_event"
    /\ response.status = 200
    /\ \E i \in 1..Len(events_db) :
           /\ events_db[i].id = response.arg
           /\ events_db[i].title = "Reading"
           /\ events_db[i].description = "Authors"
           /\ events_db[i].date = 2
           /\ events_db[i].attendees = <<"u1", "u1">>

(* C18: get_books with available=true returns exactly the books whose
   available is above 0 and with available=false exactly those whose
   available is 0 or below, whatever their quantity; with title, author and
   year filters as well the result is, in store order, the books that each
   filter on its own returns; no store changes. *)
AvailableAs(b, available) ==
    \/ available = Absent
    \/ available = Some(TRUE) /\ b.available >= 1
    \/ available = Some(FALSE) /\ b.available <= 0

Alone(title, author, year, available) ==
    Range(filter_books(books_db, title, author, year, available))

C18_AvailabilityFilter ==
    [][Served("get_books") =>
         LET q == response'.arg
         IN  /\ UNCHANGED <<stores, now>>
             /\ (q.title = Absent /\ q.author = Absent /\ q.year = Absent) =>
                    response'.body =
                        SelectSeq(books_db, LAMBDA b : AvailableAs(b, q.available))
             /\ response'.body =
                    SelectSeq(books_db, LAMBDA b :
                        /\ b \in Alone(q.title, Absent, Absent, Absent)
                        /\ b \in Alone(Absent, q.author, Absent, Absent)
                        /\ b \in Alone(Absent, Absent, q.year, Absent)
                        /\ b \in Alone(Absent, Absent, Absent, q.available))]_vars

(* a title and available=true were asked for together: of two books with the
   title, the one that is out of stock with copies owned is left out *)
C18_Witness ==
    /\ response.op = "get_books"
    /\ response.arg.title = Some(<<"U", "N">>)
    /\ response.arg.available = Some(TRUE)
    /\ Len(books_db) = 2
    /\ books_db[1].title = Dune /\ books_db[1].available = 0 /\ books_db[1].quantity = 2
    /\ response.body = <<books_db[2]>>

(* C19: for every book, available plus the number of its active borrowings
   is the same after every step as before it; borrowings_db is empty at the
   start, so that sum is the book's initial available.  A return_book that
   finds an active borrowing of the caller for the book closes exactly one
   such record and raises available by one; one that finds none answers 400
   and changes nothing. *)
ActiveOf(borrowings, book_id) ==
    {i \in 1..Len(borrowings) :
        borrowings[i].book_id = book_id /\ borrowings[i].returned_at = None}

Accounted(books, borrowings, i) ==
    books[i].available + Cardinality(ActiveOf(borrowings, books[i].id))

Closed ==
    {i \in 1..Len(borrowings_db) :
        borrowings_db[i].returned_at = None /\ borrowings_db'[i].returned_at # None}

C19_LoanAccounting ==
    [][/\ (books_db' # books_db \/ borrowings_db' # borrowings_db) =>
             /\ Len(books_db') = Len(books_db)
             /\ \A i \in 1..Len(books_db) :
                    Accounted(books_db', borrowings_db', i)
                        = Accounted(books_db, borrowings_db, i)
       /\ Served("return_book") =>
             \A token \in Tokens :
                (Authenticated(token) /\ return_book(token, response'.arg)) =>
                   IF \E i \in ActiveOf(borrowings_db, response'.arg) :
                          borrowings_db[i].user_id = Caller(token).id
                   THEN /\ response'.status = 200
                        /\ Len(borrowings_db') = Len(borrowings_db)
                        /\ Cardinality(Closed) = 1
                        /\ \A i \in Closed :
                               /\ borrowings_db[i].user_id = Caller(token).id
                               /\ borrowings_db[i].book_id = response'.arg
                        /\ BookOf(books_db', response'.arg).available
                               = BookOf(books_db, response'.arg).available + 1
                   ELSE /\ response'.status = 400
                        /\ UNCHANGED <<stores, now>>]_vars

(* a return went through for a book that someone else still holds: one
   record of the book is closed, another is active *)
C19_Witness ==
    /\ response.op = "return_book"
    /\ response.status = 200
    /\ ActiveOf(borrowings_db, response.arg) # {}
    /\ \E i \in 1..Len(borrowings_db) :
           /\ borrowings_db[i].book_id = response.arg
           /\ borrowings_db[i].returned_at # None
           /\ \E j \in ActiveOf(borrowings_db, response.arg) :
                  borrowings_db[j].user_id # borrowings_db[i].user_id

(* C20: no successful write is lost: when cancel_reservation binds
   reservations_db to the list it built, every stored reservation other than
   the caller's own of that book is still stored afterwards, a reserve_book
   by another user served in between included; likewise when delete_event
   binds events_db, every stored event with another id is still stored. *)
C20_NoLostWrite ==
    [][\A th \in Threads :
          /\ (pc[th] = "filtered_reservations" /\ pc'[th] = "done") =>
                \A i \in 1..Len(reservations_db) :
                   ~( /\ reservations_db[i].book_id = seen[th].book_id
                      /\ reservations_db[i].user_id = seen[th].user_id )
                      => reservations_db[i] \in Range(reservations_db')
          /\ (pc[th] = "filtered_events" /\ pc'[th] = "done") =>
                \A i \in 1..Len(events_db) :
                   events_db[i].id # seen[th].book_id
                      => events_db[i] \in Range(events_db')]_vars

====
